---- MODULE Spec2Model ----
(***************************************************************************)
(* Model of the room-scoped WebSocket gateway                              *)
(* (gateway-service/src/ws_handler.rs, gateway-service/src/state.rs).      *)
(*                                                                         *)
(* A connection attempt runs ws_handler (origin check, token extraction,   *)
(* token validation, room resolution, get-or-create of the room's          *)
(* broadcast channel).  An admitted attempt later runs handle_socket:      *)
(* subscribe, spawn the forward task, run the receive loop, and on exit    *)
(* abort the forward task, read the receiver count and remove the room.    *)
(* The older single-channel entry point (gateway-service/src/main.rs) is   *)
(* modelled in its own section, on the same variables.                     *)
(***************************************************************************)
EXTENDS Integers, Sequences, FiniteSets, TLC

\* ------------------------------------------------------------------ bounds
NumSess == 3          \* connection attempts (one session slot each)
NumChat == 2          \* the attempts made in the messaging specification
MaxPub == 2           \* broadcast sends in the messaging specification
MaxRoomPub == 1       \* broadcast sends in the one-room specification
MaxCtl == 2           \* ping and pong frames taken by the receive loops
MaxLagPub == 3        \* broadcast sends in the lag specification
Clock == 1000         \* the gateway's clock when the attempts are made

\* Broadcast channel capacity per room.  The source sets 100; the model runs
\* the same ring-buffer rule with a capacity small enough for a receiver to
\* fall behind within MaxPub sends.
CHANNEL_CAPACITY == 1

Sess == 1..NumSess

\* ------------------------------------------------------- program constants
LEEWAY == 60          \* validation.leeway

\* ------------------------------------------------------------ header text
\* A header value is a sequence of atoms.  An atom is a comma, a space, a
\* word (a run of characters holding neither comma nor whitespace) or a
\* compact JWT (also free of commas and whitespace).
Comma == [k |-> "comma"]
Space == [k |-> "space"]
Word(w) == [k |-> "word", w |-> w]
NoRoom == <<>>
Jwt(sig, sub, exp, room) ==
    [k |-> "jwt", sig |-> sig, sub |-> sub, exp |-> exp, room |-> room]

\* u8::to_ascii_lowercase on the words the model uses
ToLower(w) ==
    CASE w = "Bearer" -> "bearer"
      [] w = "BEARER" -> "bearer"
      [] OTHER -> w

\* str::eq_ignore_ascii_case(part, "bearer")
IsBearer(part) ==
    /\ Len(part) = 1
    /\ part[1].k = "word"
    /\ ToLower(part[1].w) = "bearer"

\* str::trim: drop leading and trailing whitespace
RECURSIVE TrimStart(_)
TrimStart(p) ==
    IF p # <<>> /\ Head(p) = Space THEN TrimStart(Tail(p)) ELSE p

RECURSIVE TrimEnd(_)
TrimEnd(p) ==
    IF p # <<>> /\ p[Len(p)] = Space
    THEN TrimEnd(SubSeq(p, 1, Len(p) - 1))
    ELSE p

Trim(p) == TrimEnd(TrimStart(p))

\* str::split(','): the pieces between commas; "" splits into one empty piece
RECURSIVE SplitFrom(_, _)
SplitFrom(h, cur) ==
    IF h = <<>> THEN <<cur>>
    ELSE IF Head(h) = Comma THEN <<cur>> \o SplitFrom(Tail(h), <<>>)
    ELSE SplitFrom(Tail(h), Append(cur, Head(h)))

Split(h) == SplitFrom(h, <<>>)

\* header.split(',').map(|s| s.trim()).collect()
Parts(h) == [i \in 1..Len(Split(h)) |-> Trim(Split(h)[i])]

\* mutant: only the "bearer, <token>" form is recognized
extract_token_bearer_form_only(header) ==
    LET parts == Parts(header) IN
    IF Len(parts) >= 2 /\ IsBearer(parts[1]) THEN parts[2] ELSE <<>>

extract_token_from_protocol(header) ==
    LET parts == Parts(header) IN
    IF Len(parts) >= 2 /\ IsBearer(parts[1]) THEN parts[2]
    ELSE IF Len(parts) = 1 /\ ~IsBearer(parts[1]) THEN parts[1]
    ELSE <<>>

\* ------------------------------------------------------- token validation
\* jsonwebtoken::decode with Validation::default(), leeway = 60 and
\* validate_exp = true: the token must be one compact JWT, carry a signature
\* made with the secret, and have exp >= now - leeway.
\* mutant: the expiry check without the leeway
TokenExpiredNoLeeway(exp, clock) == exp < clock

TokenExpired(exp, clock) == exp < clock - LEEWAY

validate_token(token, clock) ==
    IF Len(token) # 1 \/ token[1].k # "jwt"
    THEN [ok |-> FALSE, err |-> "InvalidToken"]
    ELSE IF token[1].sig # "good"
    THEN [ok |-> FALSE, err |-> "InvalidSignature"]
    ELSE IF TokenExpired(token[1].exp, clock)
    THEN [ok |-> FALSE, err |-> "ExpiredSignature"]
    ELSE [ok |-> TRUE,
          claims |-> [sub |-> token[1].sub, exp |-> token[1].exp,
                      room |-> token[1].room]]

\* mutant: the room id is always derived from sub, the room claim is ignored
RoomOfSubOnly(claims) == <<"user:">> \o claims.sub

\* claims.room.unwrap_or_else(|| format!("user:{}", claims.sub))
\* Strings that are concatenated are sequences of pieces: "user:alice" is
\* <<"user:", "alice">>.
RoomOf(claims) ==
    IF claims.room # NoRoom THEN claims.room[1] ELSE <<"user:">> \o claims.sub

\* mutant: is_origin_allowed without the is_empty() branch, so an empty
\* allow-list refuses every origin
is_origin_allowed_no_empty(allowed, origin) ==
    \E i \in 1..Len(allowed) : allowed[i] = origin

\* AppState::is_origin_allowed
is_origin_allowed(allowed, origin) ==
    IF allowed = <<>> THEN TRUE
    ELSE \E i \in 1..Len(allowed) : allowed[i] = origin

\* ------------------------------------------------------------------ state
VARIABLES
    now,             \* the gateway's clock, seconds since the epoch
    allowed_origins, \* AppState.allowed_origins
    rooms,           \* AppState.rooms: room id -> channel (DashMap)
    chan,            \* channel -> the messages sent on it while it had a receiver
    npub,            \* broadcast sends made so far
    nctl,            \* ping and pong frames the receive loops have taken
    pc,              \* where each connection attempt / session is
    req,             \* the request each attempt presented
    token,           \* ws_handler's token: what it extracted from the header
    resp,            \* the HTTP response ws_handler returned
    verified,        \* whether ws_handler called validate_token
    room_id,         \* handle_socket's room_id
    sender,          \* handle_socket's broadcast::Sender (a channel)
    fwd,             \* the forward task
    rx_next,         \* the forward task's Receiver: messages of the channel
                     \* it is past (0 once the Receiver is dropped)
    sock,            \* what has been written to the client's socket
    count_read       \* receiver_count() as the cleanup read it (-1: not
                     \* read, or handle_socket has returned)

vars == <<now, allowed_origins, rooms, chan, npub, nctl, pc, req, token,
                   resp, verified,
          room_id, sender, fwd, rx_next, sock, count_read>>

None == <<>>

\* ---------------------------------------------------------------- requests
Bearer == <<Word("bearer"), Comma, Space>>
Alice == <<"alice">>
Bob == <<"bob">>
AliceRoom == <<"user:", "alice">>
DevOrigins == <<"http://localhost:3000", "http://127.0.0.1:3000">>

Request(origin, header) == [origin |-> origin, header |-> header]

GoodAlice == Jwt("good", Alice, Clock + 1000, NoRoom)
GoodBob == Jwt("good", Bob, Clock + 1000, NoRoom)
BobInAliceRoom == Jwt("good", Bob, Clock + 1000, <<AliceRoom>>)

\* the attempts of the session model: two that are admitted, to different
\* rooms, and one for each way ws_handler rejects
Requests ==
    { Request(None, Bearer \o <<GoodAlice>>),
      Request(<<DevOrigins[1]>>, <<GoodBob>>),
      Request(<<"https://evil.com">>, Bearer \o <<GoodAlice>>),
      Request(None, <<Word("bearer")>>),
      Request(None, Bearer \o <<Jwt("good", Alice, Clock - 61, NoRoom)>>) }

\* -------------------------------------------------------------- ws_handler
Forbidden(body) == [status |-> 403, body |-> body]
Upgrade == [status |-> 101, body |-> "bearer"]

\* an early return of ws_handler: the response is sent, nothing else changes
\* (t is the token extracted so far, empty when the return comes before the
\* extraction)
Reject(s, t, body, checked) ==
    /\ pc' = [pc EXCEPT ![s] = "rejected"]
    /\ token' = [token EXCEPT ![s] = t]
    /\ resp' = [resp EXCEPT ![s] = Forbidden(body)]
    /\ verified' = [verified EXCEPT ![s] = checked]
    /\ UNCHANGED <<rooms, chan, room_id, sender>>

\* mutant: the map is looked up without the room id, so any registered
\* channel is handed out
GetOrCreateAnyRoom(s, room) ==
    IF DOMAIN rooms # {}
    THEN /\ sender' = [sender EXCEPT
                         ![s] = rooms[CHOOSE k \in DOMAIN rooms : TRUE]]
         /\ UNCHANGED <<rooms, chan>>
    ELSE /\ chan' = Append(chan, <<>>)
         /\ rooms' = rooms @@ (room :> Len(chan) + 1)
         /\ sender' = [sender EXCEPT ![s] = Len(chan) + 1]

\* mutant: insert() in place of entry().or_insert_with(): every admission
\* creates a channel and overwrites the entry
GetOrCreateInsert(s, room) ==
    /\ chan' = Append(chan, <<>>)
    /\ rooms' = (room :> Len(chan) + 1) @@ rooms
    /\ sender' = [sender EXCEPT ![s] = Len(chan) + 1]

\* rooms.entry(room_id).or_insert_with(|| broadcast::channel(..).0).clone(),
\* one operation under the map's shard lock
GetOrCreate(s, room) ==
    IF room \in DOMAIN rooms
    THEN /\ sender' = [sender EXCEPT ![s] = rooms[room]]
         /\ UNCHANGED <<rooms, chan>>
    ELSE /\ chan' = Append(chan, <<>>)
         /\ rooms' = rooms @@ (room :> Len(chan) + 1)
         /\ sender' = [sender EXCEPT ![s] = Len(chan) + 1]

Admit(s, t, claims) ==
    /\ pc' = [pc EXCEPT ![s] = "admitted"]
    /\ token' = [token EXCEPT ![s] = t]
    /\ resp' = [resp EXCEPT ![s] = Upgrade]
    /\ verified' = [verified EXCEPT ![s] = TRUE]
    /\ room_id' = [room_id EXCEPT ![s] = RoomOf(claims)]
    /\ GetOrCreate(s, RoomOf(claims))

\* mutant: ws_handler without the token.is_empty() return
WsHandlerNoEmptyCheck(s, r) ==
    /\ pc[s] = "idle"
    /\ req' = [req EXCEPT ![s] = r]
    /\ IF r.origin # None /\ ~is_origin_allowed(allowed_origins, r.origin[1])
       THEN Reject(s, <<>>, "Origin not allowed", FALSE)
       ELSE LET t == extract_token_from_protocol(r.header)
                v == validate_token(t, now)
            IN  IF ~v.ok
                THEN Reject(s, t, "Invalid or expired token", TRUE)
                ELSE Admit(s, t, v.claims)
    /\ UNCHANGED <<now, allowed_origins, nctl, npub, fwd, rx_next, sock,
                   count_read>>

\* mutant: ws_handler treating a missing Origin header as an origin the
\* allow-list has to hold
WsHandlerOriginRequired(s, r) ==
    /\ pc[s] = "idle"
    /\ req' = [req EXCEPT ![s] = r]
    /\ IF \/ r.origin = None /\ allowed_origins # <<>>
          \/ r.origin # None
               /\ ~is_origin_allowed(allowed_origins, r.origin[1])
       THEN Reject(s, <<>>, "Origin not allowed", FALSE)
       ELSE LET t == extract_token_from_protocol(r.header) IN
            IF t = <<>>
            THEN Reject(s, t, "Missing authentication token", FALSE)
            ELSE LET v == validate_token(t, now) IN
                 IF ~v.ok
                 THEN Reject(s, t, "Invalid or expired token", TRUE)
                 ELSE Admit(s, t, v.claims)
    /\ UNCHANGED <<now, allowed_origins, nctl, npub, fwd, rx_next, sock,
                   count_read>>

\* mutant: ws_handler putting the decode error into the response body
WsHandlerErrorInBody(s, r) ==
    /\ pc[s] = "idle"
    /\ req' = [req EXCEPT ![s] = r]
    /\ IF r.origin # None /\ ~is_origin_allowed(allowed_origins, r.origin[1])
       THEN Reject(s, <<>>, "Origin not allowed", FALSE)
       ELSE LET t == extract_token_from_protocol(r.header) IN
            IF t = <<>>
            THEN Reject(s, t, "Missing authentication token", FALSE)
            ELSE LET v == validate_token(t, now) IN
                 IF ~v.ok
                 THEN Reject(s, t, v.err, TRUE)
                 ELSE Admit(s, t, v.claims)
    /\ UNCHANGED <<now, allowed_origins, nctl, npub, fwd, rx_next, sock,
                   count_read>>

\* mutant: ws_handler resolving the room from the token's claims before
\* the token is verified, so a refused JWT still leaves a room entry
WsHandlerRoomBeforeVerify(s, r) ==
    /\ pc[s] = "idle"
    /\ req' = [req EXCEPT ![s] = r]
    /\ IF r.origin # None /\ ~is_origin_allowed(allowed_origins, r.origin[1])
       THEN Reject(s, <<>>, "Origin not allowed", FALSE)
       ELSE LET t == extract_token_from_protocol(r.header) IN
            IF t = <<>>
            THEN Reject(s, t, "Missing authentication token", FALSE)
            ELSE LET v == validate_token(t, now) IN
                 IF v.ok THEN Admit(s, t, v.claims)
                 ELSE IF Len(t) = 1 /\ t[1].k = "jwt"
                         /\ RoomOf(t[1]) \notin DOMAIN rooms
                 THEN /\ pc' = [pc EXCEPT ![s] = "rejected"]
                      /\ token' = [token EXCEPT ![s] = t]
                      /\ resp' = [resp EXCEPT
                                    ![s] = Forbidden("Invalid or expired token")]
                      /\ verified' = [verified EXCEPT ![s] = TRUE]
                      /\ chan' = Append(chan, <<>>)
                      /\ rooms' = rooms @@ (RoomOf(t[1]) :> Len(chan) + 1)
                      /\ UNCHANGED <<room_id, sender>>
                 ELSE Reject(s, t, "Invalid or expired token", TRUE)
    /\ UNCHANGED <<now, allowed_origins, nctl, npub, fwd, rx_next, sock,
                   count_read>>

WsHandler(s, r) ==
    /\ pc[s] = "idle"
    /\ req' = [req EXCEPT ![s] = r]
    /\ IF r.origin # None /\ ~is_origin_allowed(allowed_origins, r.origin[1])
       THEN Reject(s, <<>>, "Origin not allowed", FALSE)
       ELSE LET t == extract_token_from_protocol(r.header) IN
            IF t = <<>>
            THEN Reject(s, t, "Missing authentication token", FALSE)
            ELSE LET v == validate_token(t, now) IN
                 IF ~v.ok
                 THEN Reject(s, t, "Invalid or expired token", TRUE)
                 ELSE Admit(s, t, v.claims)
    /\ UNCHANGED <<now, allowed_origins, nctl, npub, fwd, rx_next, sock,
                   count_read>>

\* ----------------------------------------------------------- handle_socket
\* Sender::receiver_count(): the Receivers of the channel not yet dropped.
\* A session's Receiver lives in its forward task, from subscribe() until
\* the task's future is dropped (the loop ended, or the runtime carried out
\* an abort).
HasReceiver(s) == fwd[s] \in {"running", "aborting"}

\* the sessions whose Receiver is subscribed to channel c
Receivers(c) == {t \in Sess : sender[t] = c /\ HasReceiver(t)}

ReceiverCount(c) == Cardinality(Receivers(c))

\* the sessions of a room id that are ACTIVE: the receive loop runs and the
\* forward loop has neither ended nor been asked to stop
Peers(room) ==
    {t \in Sess : pc[t] = "active" /\ room_id[t] = room /\ fwd[t] = "running"}

\* mutant: a Receiver that starts at the channel's first message
SubscribeFromStart(c) == 0

\* sender.subscribe(): a Receiver that starts at the channel's tail
SubscribePos(c) == Len(chan[c])

\* socket.split(), sender.subscribe(), tokio::spawn(forward loop)
HandleSocket(s) ==
    /\ pc[s] = "admitted"
    /\ pc' = [pc EXCEPT ![s] = "active"]
    /\ fwd' = [fwd EXCEPT ![s] = "running"]
    /\ rx_next' = [rx_next EXCEPT ![s] = SubscribePos(sender[s])]
    /\ UNCHANGED <<now, allowed_origins, nctl, rooms, chan, npub, req, token,
                   resp,
                   verified, room_id, sender, sock, count_read>>

\* rx.recv() finds the next message overwritten: RecvError::Lagged
Lagged(s) == Len(chan[sender[s]]) - rx_next[s] > CHANNEL_CAPACITY

\* rx.recv() has a message to return
Ready(s) == rx_next[s] < Len(chan[sender[s]]) /\ ~Lagged(s)

\* what the forward loop writes for a message: Message::Text(msg)
Outgoing(m) == [kind |-> "text", data |-> m.text, msg |-> m]

\* mutant: the Receiver's position is counted from the newest message
\* instead of from the oldest
ForwardFromNewest(s) ==
    /\ HasReceiver(s)
    /\ Ready(s)
    /\ sock' = [sock EXCEPT
                   ![s] = Append(@, Outgoing(chan[sender[s]]
                                     [Len(chan[sender[s]]) - rx_next[s]]))]
    /\ rx_next' = [rx_next EXCEPT ![s] = @ + 1]
    /\ UNCHANGED <<now, allowed_origins, nctl, rooms, chan, npub, pc, req, token,
                   resp,
                   verified, room_id, sender, fwd, count_read>>

\* forward loop, one iteration: recv() returns Ok(msg), the write succeeds.
\* A task whose abort was requested while it was being polled runs on until
\* its next suspension, so the iteration is open to it too.
Forward(s) ==
    /\ HasReceiver(s)
    /\ Ready(s)
    /\ sock' = [sock EXCEPT
                   ![s] = Append(@, Outgoing(chan[sender[s]][rx_next[s] + 1]))]
    /\ rx_next' = [rx_next EXCEPT ![s] = @ + 1]
    /\ UNCHANGED <<now, allowed_origins, nctl, rooms, chan, npub, pc, req, token,
                   resp,
                   verified, room_id, sender, fwd, count_read>>

\* forward loop: recv() returns Ok(msg), ws_sender.send fails, break
ForwardSendFailed(s) ==
    /\ HasReceiver(s)
    /\ Ready(s)
    /\ fwd' = [fwd EXCEPT ![s] = "ended"]
    /\ rx_next' = [rx_next EXCEPT ![s] = 0]
    /\ UNCHANGED <<now, allowed_origins, nctl, rooms, chan, npub, pc, req, token,
                   resp,
                   verified, room_id, sender, sock, count_read>>

\* mutant: on Err(Lagged) the loop goes on from the oldest message the
\* channel still holds
ForwardLaggedContinues(s) ==
    /\ HasReceiver(s)
    /\ Lagged(s)
    /\ rx_next' = [rx_next EXCEPT
                      ![s] = Len(chan[sender[s]]) - CHANNEL_CAPACITY]
    /\ UNCHANGED <<now, allowed_origins, nctl, rooms, chan, npub, pc, req,
                   token, resp, verified, room_id, sender, fwd, sock,
                   count_read>>

\* forward loop: recv() returns Err(Lagged), `while let Ok` ends the loop
ForwardLagged(s) ==
    /\ HasReceiver(s)
    /\ Lagged(s)
    /\ fwd' = [fwd EXCEPT ![s] = "ended"]
    /\ rx_next' = [rx_next EXCEPT ![s] = 0]
    /\ UNCHANGED <<now, allowed_origins, nctl, rooms, chan, npub, pc, req, token,
                   resp,
                   verified, room_id, sender, sock, count_read>>

\* the runtime carries out a requested abort: the task's future, and the
\* Receiver in it, are dropped
ForwardDropped(s) ==
    /\ fwd[s] = "aborting"
    /\ fwd' = [fwd EXCEPT ![s] = "cancelled"]
    /\ rx_next' = [rx_next EXCEPT ![s] = 0]
    /\ UNCHANGED <<now, allowed_origins, nctl, rooms, chan, npub, pc, req, token,
                   resp,
                   verified, room_id, sender, sock, count_read>>

\* "{:02x}" of one byte
HexDigit(n) ==
    <<"0", "1", "2", "3", "4", "5", "6", "7", "8", "9",
      "a", "b", "c", "d", "e", "f">>[n + 1]

Hex(b) == <<HexDigit(b \div 16), HexDigit(b % 16)>>

RECURSIVE base64_encode(_)
base64_encode(data) ==
    IF data = <<>> THEN <<>> ELSE Hex(Head(data)) \o base64_encode(Tail(data))

\* format!("{{\"type\":\"binary\",\"data\":\"{}\"}}", encoded)
Envelope(encoded) ==
    <<"{", "type", ":", "binary", ",", "data", ":", "'">> \o encoded
        \o <<"'", "}">>

\* mutant: a binary frame's bytes are sent to the room as they came
PublishedRaw(frame) == frame.data

\* the text the receive loop sends to the room for a frame
Published(frame) ==
    IF frame.kind = "text" THEN frame.data
    ELSE Envelope(base64_encode(frame.data))

\* Sender::send(text): with no Receiver the value comes back as SendError
\* and is stored nowhere; otherwise it is queued for every Receiver
Send(s, frame) ==
    /\ npub' = npub + 1
    /\ IF ReceiverCount(sender[s]) = 0
       THEN UNCHANGED chan
       ELSE chan' = [chan EXCEPT
                       ![sender[s]] = Append(@,
                           [from |-> s, room |-> room_id[s], frame |-> frame,
                            text |-> Published(frame),
                            rcpts |-> Receivers(sender[s])])]

Texts == {<<"hi">>}
Binaries == {<<10, 255>>}

Frames ==
    [kind : {"text"}, data : Texts] \cup [kind : {"binary"}, data : Binaries]

\* mutant: the receive loop breaks when Sender::send returns an error
RecvDataBreakOnError(s, frame) ==
    /\ pc[s] = "active"
    /\ Send(s, frame)
    /\ IF ReceiverCount(sender[s]) = 0
       THEN /\ pc' = [pc EXCEPT ![s] = "closing"]
            /\ fwd' = [fwd EXCEPT ![s] = IF @ = "running" THEN "aborting"
                                         ELSE @]
       ELSE UNCHANGED <<pc, fwd>>
    /\ UNCHANGED <<now, allowed_origins, nctl, rooms, req, token,
                   resp, verified,
                   room_id, sender, rx_next, sock, count_read>>

\* receive loop: Ok(Message::Text(text)) or Ok(Message::Binary(data))
RecvData(s, frame) ==
    /\ pc[s] = "active"
    /\ Send(s, frame)
    /\ UNCHANGED <<now, allowed_origins, nctl, rooms, pc, req, token,
                   resp, verified,
                   room_id, sender, fwd, rx_next, sock, count_read>>

\* mutant: a ping or pong is passed on to the room like a text frame
RecvPingPongPublished(s, kind) ==
    /\ pc[s] = "active"
    /\ kind \in {"ping", "pong"}
    /\ nctl' = nctl + 1
    /\ Send(s, [kind |-> "text", data |-> <<kind>>])
    /\ UNCHANGED <<now, allowed_origins, rooms, pc, req, token,
                   resp, verified, room_id, sender, fwd, rx_next, sock,
                   count_read>>

\* receive loop: Ok(Message::Ping(_)) or Ok(Message::Pong(_)), logged only
RecvPingPong(s, kind) ==
    /\ pc[s] = "active"
    /\ kind \in {"ping", "pong"}
    /\ nctl' = nctl + 1
    /\ UNCHANGED <<now, allowed_origins, rooms, chan, npub, pc, req, token,
                   resp, verified, room_id, sender, fwd, rx_next, sock,
                   count_read>>

\* mutant: the forward task is left alone when the receive loop ends
AbortNever(state) == state

\* JoinHandle::abort() on the forward task: a request, carried out by the
\* runtime; it does nothing to a task that has ended
Abort(state) == IF state = "running" THEN "aborting" ELSE state

\* receive loop ends (Close frame, Err(e), or end of stream), then
\* forward_task.abort()
RecvStop(s, why) ==
    /\ pc[s] = "active"
    /\ why \in {"close", "error", "eof"}
    /\ pc' = [pc EXCEPT ![s] = "closing"]
    /\ fwd' = [fwd EXCEPT ![s] = Abort(@)]
    /\ UNCHANGED <<now, allowed_origins, nctl, rooms, chan, npub, req, token,
                   resp,
                   verified, room_id, sender, rx_next, sock,
                   count_read>>

\* sender.receiver_count(), the operand of `== 0`
CheckCount(s) ==
    /\ pc[s] = "closing"
    /\ count_read' = [count_read EXCEPT ![s] = ReceiverCount(sender[s])]
    /\ pc' = [pc EXCEPT ![s] = "checked"]
    /\ UNCHANGED <<now, allowed_origins, nctl, rooms, chan, npub, req, token,
                   resp,
                   verified, room_id, sender, fwd, rx_next, sock>>

\* DashMap::remove(&room_id)
Removed(map, room) == [k \in DOMAIN map \ {room} |-> map[k]]

\* the body of `if ... == 0`: rooms.remove(&room_id)
Release(s) ==
    IF count_read[s] = 0 THEN rooms' = Removed(rooms, room_id[s])
    ELSE UNCHANGED rooms

\* mutant: removing the room's entry closes the channel, which ends the
\* forward loop of every session still subscribed to it
FinishClosesChannel(s) ==
    /\ pc[s] = "checked"
    /\ Release(s)
    /\ pc' = [pc EXCEPT ![s] = "closed"]
    /\ count_read' = [count_read EXCEPT ![s] = -1]
    /\ fwd' = [t \in Sess |->
                 IF count_read[s] = 0 /\ t # s /\ sender[t] = sender[s]
                    /\ fwd[t] = "running"
                 THEN "ended" ELSE fwd[t]]
    /\ rx_next' = [t \in Sess |->
                     IF count_read[s] = 0 /\ t # s /\ sender[t] = sender[s]
                        /\ fwd[t] = "running"
                     THEN 0 ELSE rx_next[t]]
    /\ UNCHANGED <<now, allowed_origins, nctl, chan, npub, req, token,
                   resp, verified, room_id, sender, sock>>

\* the rest of the cleanup, then handle_socket returns and its locals go
Finish(s) ==
    /\ pc[s] = "checked"
    /\ Release(s)
    /\ pc' = [pc EXCEPT ![s] = "closed"]
    /\ count_read' = [count_read EXCEPT ![s] = -1]
    /\ UNCHANGED <<now, allowed_origins, nctl, chan, npub, req, token,
                   resp, verified,
                   room_id, sender, fwd, rx_next, sock>>

\* ---------------------------------------------------------- specification
Init ==
    /\ now = Clock
    /\ allowed_origins = DevOrigins
    /\ rooms = [k \in {} |-> 0]
    /\ chan = <<>>
    /\ npub = 0
    /\ nctl = 0
    /\ pc = [s \in Sess |-> "idle"]
    /\ req = [s \in Sess |-> None]
    /\ token = [s \in Sess |-> <<>>]
    /\ resp = [s \in Sess |-> None]
    /\ verified = [s \in Sess |-> FALSE]
    /\ room_id = [s \in Sess |-> None]
    /\ sender = [s \in Sess |-> 0]
    /\ fwd = [s \in Sess |-> "none"]
    /\ rx_next = [s \in Sess |-> 0]
    /\ sock = [s \in Sess |-> <<>>]
    /\ count_read = [s \in Sess |-> -1]

\* a connection attempt arrives and ws_handler runs on it
Connect(s) == \E r \in Requests : WsHandler(s, r)

\* the receive loop takes a data frame from the client
RecvFrame(s) == \E f \in Frames : RecvData(s, f)

\* the receive loop takes a text frame from the client
RecvText(s) == \E f \in [kind : {"text"}, data : Texts] : RecvData(s, f)

\* an attempt with alice's token arrives
ConnectAlice(s) == WsHandler(s, Request(None, Bearer \o <<GoodAlice>>))

\* the receive loop takes a ping or a pong
RecvControl(s) == \E k \in {"ping", "pong"} : RecvPingPong(s, k)

\* the client's stream closes, fails or ends
Disconnect(s) == \E w \in {"close", "error", "eof"} : RecvStop(s, w)

\* Messaging: NumChat attempts, text and binary frames, MaxPub sends.
Next ==
    \E s \in 1..NumChat :
        \/ Connect(s)
        \/ HandleSocket(s)
        \/ Forward(s)
        \/ ForwardSendFailed(s)
        \/ ForwardLagged(s)
        \/ ForwardDropped(s)
        \/ npub < MaxPub /\ RecvFrame(s)
        \/ Disconnect(s)
        \/ CheckCount(s)
        \/ Finish(s)

Spec == Init /\ [][Next]_vars

\* Join/leave churn: NumSess attempts whose clients send no frames.
NextChurn ==
    \E s \in Sess :
        \/ Connect(s)
        \/ HandleSocket(s)
        \/ ForwardDropped(s)
        \/ Disconnect(s)
        \/ CheckCount(s)
        \/ Finish(s)

SpecChurn == Init /\ [][NextChurn]_vars

\* One room: NumSess attempts with the same token, MaxRoomPub text frames.
NextRoom ==
    \E s \in Sess :
        \/ ConnectAlice(s)
        \/ HandleSocket(s)
        \/ Forward(s)
        \/ ForwardSendFailed(s)
        \/ ForwardDropped(s)
        \/ npub < MaxRoomPub /\ RecvText(s)
        \/ Disconnect(s)
        \/ CheckCount(s)
        \/ Finish(s)

SpecRoom == Init /\ [][NextRoom]_vars

\* Scheduling: the cleanup of handle_socket has no await, so once the
\* receive loop has ended it runs to the return; the runtime gets to every
\* task whose abort was requested and drops it.  Clients are under no
\* obligation: no fairness on attempts, frames or disconnects, nor on the
\* forward loop's iterations.
Fairness ==
    \A s \in Sess :
        /\ WF_vars(CheckCount(s))
        /\ WF_vars(Finish(s))
        /\ WF_vars(ForwardDropped(s))

SpecFair == Init /\ [][Next]_vars /\ Fairness

\* Control frames: NumChat attempts, MaxRoomPub text frames, MaxCtl pings
\* and pongs.
NextCtl ==
    \E s \in 1..NumChat :
        \/ Connect(s)
        \/ HandleSocket(s)
        \/ Forward(s)
        \/ ForwardSendFailed(s)
        \/ ForwardDropped(s)
        \/ npub < MaxRoomPub /\ RecvText(s)
        \/ nctl < MaxCtl /\ RecvControl(s)
        \/ Disconnect(s)
        \/ CheckCount(s)
        \/ Finish(s)

SpecCtl == Init /\ [][NextCtl]_vars

\* Lag: NumChat attempts with the same token, MaxLagPub text frames.
NextLag ==
    \E s \in 1..NumChat :
        \/ ConnectAlice(s)
        \/ HandleSocket(s)
        \/ Forward(s)
        \/ ForwardLagged(s)
        \/ ForwardDropped(s)
        \/ npub < MaxLagPub /\ RecvText(s)
        \/ Disconnect(s)
        \/ CheckCount(s)
        \/ Finish(s)

SpecLag == Init /\ [][NextLag]_vars

\* ------------------------------------- the single-channel gateway (main.rs)
\* gateway-service/src/main.rs is a second entry point: one broadcast
\* channel for every client (AppState.tx, made in main()), the token in the
\* query string, and a handle_socket that spawns a send task and a receive
\* task and joins them.  It is modelled on the same variables: channel 1 is
\* AppState.tx, fwd[s] is the send task, and pc[s] is "active" while the
\* receive task runs, "closing" once it has ended and handle_socket still
\* waits in join!, and "closed" when handle_socket has returned.
InvalidToken == [status |-> 200, body |-> "INVALID TOKEN"]

MainTokens == {GoodAlice, Jwt("good", Alice, Clock - 61, NoRoom)}

\* main.rs ws_handler: decode the query's token, then upgrade
main_ws_handler(s, tok) ==
    /\ pc[s] = "idle"
    /\ req' = [req EXCEPT ![s] = [query |-> <<tok>>]]
    /\ token' = [token EXCEPT ![s] = <<tok>>]
    /\ verified' = [verified EXCEPT ![s] = TRUE]
    /\ IF validate_token(<<tok>>, now).ok
       THEN /\ pc' = [pc EXCEPT ![s] = "admitted"]
            /\ resp' = [resp EXCEPT ![s] = Upgrade]
       ELSE /\ pc' = [pc EXCEPT ![s] = "rejected"]
            /\ resp' = [resp EXCEPT ![s] = InvalidToken]
    /\ UNCHANGED <<now, allowed_origins, nctl, rooms, chan, npub, room_id,
                   sender, fwd, rx_next, sock, count_read>>

\* main.rs handle_socket up to join!: subscribe, clone tx, split the
\* socket, spawn send_task and recv_task
main_handle_socket(s) ==
    /\ pc[s] = "admitted"
    /\ pc' = [pc EXCEPT ![s] = "active"]
    /\ sender' = [sender EXCEPT ![s] = 1]
    /\ fwd' = [fwd EXCEPT ![s] = "running"]
    /\ rx_next' = [rx_next EXCEPT ![s] = Len(chan[1])]
    /\ UNCHANGED <<now, allowed_origins, nctl, rooms, chan, npub, req,
                   token, resp, verified, room_id, sock, count_read>>

\* send_task, one iteration: recv() returns Ok(msg); the result of
\* writer.send is discarded, so the loop goes on whether or not the write
\* succeeded
send_task(s, written) ==
    /\ fwd[s] = "running"
    /\ Ready(s)
    /\ sock' = [sock EXCEPT
                   ![s] = IF written
                          THEN Append(@, Outgoing(chan[1][rx_next[s] + 1]))
                          ELSE @]
    /\ rx_next' = [rx_next EXCEPT ![s] = @ + 1]
    /\ UNCHANGED <<now, allowed_origins, nctl, rooms, chan, npub, pc, req,
                   token, resp, verified, room_id, sender, fwd, count_read>>

\* send_task: recv() returns Err(Lagged), the only error there is while
\* AppState holds tx; `while let Ok` ends the task
send_task_lagged(s) ==
    /\ fwd[s] = "running"
    /\ Lagged(s)
    /\ fwd' = [fwd EXCEPT ![s] = "ended"]
    /\ rx_next' = [rx_next EXCEPT ![s] = 0]
    /\ UNCHANGED <<now, allowed_origins, nctl, rooms, chan, npub, pc, req,
                   token, resp, verified, room_id, sender, sock, count_read>>

\* recv_task, one iteration: Some(Ok(Message::Text(text))), tx.send(text)
recv_task(s, text) ==
    /\ pc[s] = "active"
    /\ Send(s, [kind |-> "text", data |-> text])
    /\ UNCHANGED <<now, allowed_origins, nctl, rooms, pc, req, token, resp,
                   verified, room_id, sender, fwd, rx_next, sock,
                   count_read>>

\* recv_task: reader.next() yields anything but a text frame (None, Err, a
\* close, binary, ping or pong frame): the pattern fails, the task ends
recv_task_ended(s, why) ==
    /\ pc[s] = "active"
    /\ why \in {"close", "error", "eof", "binary", "ping", "pong"}
    /\ pc' = [pc EXCEPT ![s] = "closing"]
    /\ UNCHANGED <<now, allowed_origins, nctl, rooms, chan, npub, req,
                   token, resp, verified, room_id, sender, fwd, rx_next,
                   sock, count_read>>

\* tokio::join!(send_task, recv_task) completes when both tasks have
\* ended; handle_socket returns
main_join(s) ==
    /\ pc[s] = "closing"
    /\ fwd[s] = "ended"
    /\ pc' = [pc EXCEPT ![s] = "closed"]
    /\ UNCHANGED <<now, allowed_origins, nctl, rooms, chan, npub, req,
                   token, resp, verified, room_id, sender, fwd, rx_next,
                   sock, count_read>>

\* main(): broadcast::channel(100), the Receiver dropped at once
InitMain ==
    /\ now = Clock
    /\ allowed_origins = <<>>
    /\ rooms = [k \in {} |-> 0]
    /\ chan = << <<>> >>
    /\ npub = 0
    /\ nctl = 0
    /\ pc = [s \in Sess |-> "idle"]
    /\ req = [s \in Sess |-> None]
    /\ token = [s \in Sess |-> <<>>]
    /\ resp = [s \in Sess |-> None]
    /\ verified = [s \in Sess |-> FALSE]
    /\ room_id = [s \in Sess |-> None]
    /\ sender = [s \in Sess |-> 0]
    /\ fwd = [s \in Sess |-> "none"]
    /\ rx_next = [s \in Sess |-> 0]
    /\ sock = [s \in Sess |-> <<>>]
    /\ count_read = [s \in Sess |-> -1]

NextMain ==
    \E s \in 1..NumChat :
        \/ \E tok \in MainTokens : main_ws_handler(s, tok)
        \/ main_handle_socket(s)
        \/ \E written \in BOOLEAN : send_task(s, written)
        \/ send_task_lagged(s)
        \/ npub < MaxPub /\ \E text \in Texts : recv_task(s, text)
        \/ \E why \in {"close", "error", "eof", "binary", "ping", "pong"} :
              recv_task_ended(s, why)
        \/ main_join(s)

SpecMain == InitMain /\ [][NextMain]_vars

\* Room derivation: NumChat attempts with valid tokens that carry a room
\* claim or none; the clients send no data frames.
AliceInLobby == Jwt("good", Alice, Clock + 1000, << <<"lobby">> >>)

JoinTokens == {GoodAlice, GoodBob, BobInAliceRoom, AliceInLobby}

ConnectJoin(s) ==
    \E t \in JoinTokens : WsHandler(s, Request(None, Bearer \o <<t>>))

NextJoin ==
    \E s \in 1..NumChat :
        \/ ConnectJoin(s)
        \/ HandleSocket(s)
        \/ ForwardDropped(s)
        \/ Disconnect(s)
        \/ CheckCount(s)
        \/ Finish(s)

SpecJoin == Init /\ [][NextJoin]_vars

\* Admission: one attempt, drawn from every header form, token and origin,
\* against each allow-list and clock.
ExpValues ==
    {Clock - 62, Clock - 61, Clock - 60, Clock - 59, Clock - 58, Clock,
     Clock + 1000}

AdmTokens ==
    { Jwt(sig, Alice, exp, room) :
        sig \in {"good", "bad"}, exp \in ExpValues,
        room \in {NoRoom, <<AliceRoom>>} }
    \cup {Word("garbage")}

HeaderForms(t) ==
    { <<t>>, Bearer \o <<t>>, <<Word("Bearer"), Comma, t>>,
      <<Space, t, Space>>, <<Word("bearer"), Space, t>>,
      <<Word("basic"), Comma, Space, t>>, <<t, Comma, Word("bearer")>>,
      Bearer \o <<t, Comma, Space, Word("extra")>>,
      <<Word("bearer"), Comma, Comma, t>> }

AdmHeaders ==
    UNION { HeaderForms(t) : t \in AdmTokens }
    \cup { <<>>, <<Word("bearer")>>, <<Word("BEARER")>>,
           <<Word("bearer"), Comma>>, <<Comma>>, <<Space>> }

AdmOrigins ==
    { None, <<DevOrigins[1]>>, <<DevOrigins[2]>>, <<"https://evil.com">>,
      <<"https://example.com">>, <<"http://localhost:3000/">>,
      <<"http://localhost">> }

AdmRequests == { Request(o, h) : o \in AdmOrigins, h \in AdmHeaders }

InitAdm ==
    /\ now \in {Clock, Clock + 1}
    /\ allowed_origins \in {<<>>, DevOrigins, <<"https://example.com">>}
    /\ rooms = [k \in {} |-> 0]
    /\ chan = <<>>
    /\ npub = 0
    /\ nctl = 0
    /\ pc = [s \in Sess |-> "idle"]
    /\ req = [s \in Sess |-> None]
    /\ token = [s \in Sess |-> <<>>]
    /\ resp = [s \in Sess |-> None]
    /\ verified = [s \in Sess |-> FALSE]
    /\ room_id = [s \in Sess |-> None]
    /\ sender = [s \in Sess |-> 0]
    /\ fwd = [s \in Sess |-> "none"]
    /\ rx_next = [s \in Sess |-> 0]
    /\ sock = [s \in Sess |-> <<>>]
    /\ count_read = [s \in Sess |-> -1]

NextAdm ==
    \/ \E r \in AdmRequests : WsHandler(1, r)
    \/ HandleSocket(1)
    \/ ForwardDropped(1)
    \/ nctl < MaxCtl /\ RecvControl(1)
    \/ Disconnect(1)
    \/ CheckCount(1)
    \/ Finish(1)

SpecAdm == InitAdm /\ [][NextAdm]_vars

\* ------------------------------------------------------------------ claims
InFlight == {"admitted", "active", "closing", "checked"}

\* C1. Room isolation: whatever is written to a session's socket was
\* published by a session admitted to the same room id.
C1_RoomIsolation ==
    \A s \in Sess : \A i \in 1..Len(sock[s]) :
        sock[s][i].msg.room = room_id[s]

\* two sessions are ACTIVE in different rooms, both with a live Receiver,
\* and one of them has been delivered a message of its room
C1_Witness ==
    \E s, t \in Sess :
        /\ pc[s] = "active" /\ pc[t] = "active"
        /\ room_id[s] # room_id[t]
        /\ fwd[s] = "running" /\ fwd[t] = "running"
        /\ Len(sock[s]) > 0

\* C2. Echo-inclusive fan-out, the part a finite run decides: a frame a
\* session publishes is queued for every session then ACTIVE in the
\* publisher's room (without that it is never delivered to it).
C2_FanOutReachesRoom ==
    [][\A c \in DOMAIN chan :
          Len(chan'[c]) > Len(chan[c]) =>
              Peers(chan'[c][Len(chan'[c])].room)
                  \subseteq chan'[c][Len(chan'[c])].rcpts]_vars

\* C3. No split room: every ACTIVE session holds the channel the registry
\* maps its room id to (so ACTIVE sessions of one room id share a channel).
C3_NoSplitRoom ==
    \A s \in Sess :
        pc[s] = "active" =>
            /\ room_id[s] \in DOMAIN rooms
            /\ rooms[room_id[s]] = sender[s]

\* C4. get_or_create is atomic per room id: while no session has finished
\* its cleanup (so nothing has been removed), one channel exists per
\* registered room id and every admitted caller holds the registered one.
C4_OneChannelPerRoom ==
    (\A s \in Sess : pc[s] # "closed") =>
        /\ Len(chan) = Cardinality(DOMAIN rooms)
        /\ \A s \in Sess :
              pc[s] \in InFlight =>
                  /\ room_id[s] \in DOMAIN rooms
                  /\ sender[s] = rooms[room_id[s]]

\* two admissions for one room id have both run before either session
\* started, and a third attempt has created another room
C4_Witness ==
    /\ \A s \in Sess : pc[s] # "closed"
    /\ \E s, t \in Sess :
          /\ s # t
          /\ pc[s] = "admitted" /\ pc[t] = "admitted"
          /\ room_id[s] = room_id[t]
    /\ Len(chan) = 2

\* C5. Release is conditional on channel identity: an entry leaves the
\* registry only by a departing session of that room that holds the very
\* channel the entry points at, and only when that channel has no receiver.
C5_ConditionalRelease ==
    [][\A r \in DOMAIN rooms :
          r \notin DOMAIN rooms' =>
              \E s \in Sess :
                  /\ pc[s] = "checked" /\ pc'[s] = "closed"
                  /\ room_id[s] = r
                  /\ rooms[r] = sender[s]
                  /\ ReceiverCount(rooms[r]) = 0]_vars

\* C6. Teardown on last leave: a room id some session has left, and no
\* session is admitted to or still running in, has no registry entry.
C6_TeardownOnLastLeave ==
    \A r \in DOMAIN rooms :
        (\E s \in Sess : room_id[s] = r /\ pc[s] = "closed") =>
            \E t \in Sess : room_id[t] = r /\ pc[t] \in InFlight

\* C7. No stale messages: whatever is written to a session's socket is a
\* message of the channel the session holds, sent while the session's
\* Receiver was subscribed.
C7_NoStaleMessages ==
    \A s \in Sess : \A i \in 1..Len(sock[s]) :
        /\ s \in sock[s][i].msg.rcpts
        /\ \E j \in 1..Len(chan[sender[s]]) :
              chan[sender[s]][j] = sock[s][i].msg

\* a session subscribed to a channel that already held a message, and has
\* been delivered a later one
C7_Witness ==
    \E s \in Sess :
        /\ Len(sock[s]) > 0
        /\ \E j \in 1..Len(chan[sender[s]]) :
              s \notin chan[sender[s]][j].rcpts

\* C8. Subscriber count tracks sessions: the count a session's cleanup
\* reads is the number of sessions ACTIVE in its room at that moment.
C8_CountTracksSessions ==
    [][\A s \in Sess :
          (pc[s] = "closing" /\ pc'[s] = "checked") =>
              count_read'[s] =
                  Cardinality({t \in Sess : pc[t] = "active"
                                            /\ room_id[t] = room_id[s]})]_vars

\* the origin step rejects: an Origin is present, the allow-list is not
\* empty and does not hold it
OriginRefused(r) ==
    /\ r.origin # None
    /\ allowed_origins # <<>>
    /\ \A i \in 1..Len(allowed_origins) : allowed_origins[i] # r.origin[1]

TokenOf(r) == extract_token_from_protocol(r.header)

\* C9. Denial precedes upgrade: an attempt with a disallowed Origin, an
\* empty extracted token or a token failing verification gets a 403 and
\* never becomes a session (no channel handle, no forward task, no room
\* entry); with an empty token validate_token is not called.
C9_DenialPrecedesUpgrade ==
    \A s \in Sess :
        req[s] # None =>
            /\ (\/ OriginRefused(req[s])
                \/ TokenOf(req[s]) = <<>>
                \/ ~validate_token(TokenOf(req[s]), now).ok)
                  => /\ pc[s] = "rejected"
                     /\ resp[s].status = 403
                     /\ sender[s] = 0
                     /\ fwd[s] = "none"
                     /\ room_id[s] \notin DOMAIN rooms
            /\ TokenOf(req[s]) = <<>> => ~verified[s]

\* the attempt "bearer, <expired token>" has been answered
C9_Witness ==
    /\ req[1] # None
    /\ req[1].header = Bearer \o <<Jwt("good", Alice, Clock - 62, NoRoom)>>
    /\ pc[1] = "rejected"
    /\ verified[1]

\* the attempt passes the origin step and carries one correctly signed JWT
SignedAttempt(s) ==
    /\ req[s] # None
    /\ ~OriginRefused(req[s])
    /\ Len(TokenOf(req[s])) = 1
    /\ TokenOf(req[s])[1].k = "jwt"
    /\ TokenOf(req[s])[1].sig = "good"

\* C10. Expiry with 60-second leeway: a correctly signed token is accepted
\* when exp >= now - 60 and refused when exp < now - 60.
C10_ExpiryLeeway ==
    \A s \in Sess :
        SignedAttempt(s) =>
            IF TokenOf(req[s])[1].exp >= now - 60
            THEN pc[s] # "rejected" /\ resp[s] = Upgrade
            ELSE /\ pc[s] = "rejected"
                 /\ resp[s] = Forbidden("Invalid or expired token")

\* a token whose exp is exactly 60 seconds before the clock was admitted
C10_Witness ==
    /\ SignedAttempt(1)
    /\ TokenOf(req[1])[1].exp = now - 60
    /\ pc[1] = "admitted"

\* C11. Origin allow-list: with a non-empty allow-list is_origin_allowed(o)
\* is true exactly when o is equal to an element of the list, and an attempt
\* presenting any other Origin is answered 403 "Origin not allowed"; with an
\* empty allow-list every origin passes the origin step.
C11_OriginAllowList ==
    \A s \in Sess :
        (req[s] # None /\ req[s].origin # None) =>
            LET o == req[s].origin[1]
                listed == o \in {allowed_origins[i] :
                                   i \in 1..Len(allowed_origins)}
            IN  /\ is_origin_allowed(allowed_origins, o)
                      <=> (allowed_origins = <<>> \/ listed)
                /\ IF allowed_origins # <<>> /\ ~listed
                   THEN /\ pc[s] = "rejected"
                        /\ resp[s] = Forbidden("Origin not allowed")
                   ELSE resp[s] # Forbidden("Origin not allowed")

\* an Origin that differs from a listed one by a trailing slash was refused
C11_Witness ==
    /\ req[1] # None
    /\ allowed_origins = DevOrigins
    /\ req[1].origin = <<"http://localhost:3000/">>
    /\ resp[1] = Forbidden("Origin not allowed")

\* C12. An absent Origin is never a rejection cause: whatever the
\* allow-list, an attempt without an Origin header passes the origin step,
\* and it is upgraded exactly when its extracted token is not empty and
\* verifies.
C12_AbsentOriginPasses ==
    \A s \in Sess :
        (req[s] # None /\ req[s].origin = None) =>
            /\ resp[s] # Forbidden("Origin not allowed")
            /\ resp[s] = Upgrade
                  <=> /\ TokenOf(req[s]) # <<>>
                      /\ validate_token(TokenOf(req[s]), now).ok
            /\ resp[s] # Upgrade
                  => resp[s] \in {Forbidden("Missing authentication token"),
                                  Forbidden("Invalid or expired token")}

\* an attempt without an Origin header was upgraded by a gateway whose
\* allow-list is not empty
C12_Witness ==
    /\ req[1] # None
    /\ req[1].origin = None
    /\ allowed_origins # <<>>
    /\ resp[1] = Upgrade

\* C13. Token extraction on the recognized forms: for every token T of
\* AdmTokens (non-empty, one token, not the word bearer) an attempt whose
\* header is "bearer, T" or "T" has T extracted; an attempt whose header is
\* "bearer" or "" has the empty token extracted and is refused for it.
C13_RecognizedForms ==
    \A s \in Sess :
        (req[s] # None /\ ~OriginRefused(req[s])) =>
            /\ \A T \in AdmTokens :
                  req[s].header \in { <<Word("bearer"), Comma, Space, T>>,
                                      <<T>> }
                      => token[s] = <<T>>
            /\ req[s].header \in { <<Word("bearer")>>, <<>> }
                  => /\ token[s] = <<>>
                     /\ resp[s] = Forbidden("Missing authentication token")

\* the direct form "T" was presented with a valid token and admitted
C13_Witness ==
    /\ req[1] # None
    /\ req[1].header = <<Jwt("good", Alice, Clock + 1000, NoRoom)>>
    /\ token[1] = req[1].header
    /\ pc[1] = "admitted"

\* the header is one of the two documented forms: the two-element list
\* "bearer, <token>" or a single "<token>"
C14_Recognized(h) ==
    LET p == Parts(h) IN
    \/ Len(p) = 2 /\ IsBearer(p[1]) /\ p[2] # <<>>
    \/ Len(p) = 1 /\ p[1] # <<>> /\ ~IsBearer(p[1])

\* C14. Unrecognized header forms yield the empty token: an attempt whose
\* header is neither "bearer, <token>" nor a single "<token>" (three or more
\* elements, a first element that is not bearer, an empty second element)
\* has the empty token extracted and is refused.
C14_UnrecognizedFormsEmpty ==
    \A s \in Sess :
        (req[s] # None /\ ~OriginRefused(req[s])
           /\ ~C14_Recognized(req[s].header)) =>
            /\ token[s] = <<>>
            /\ pc[s] = "rejected"
            /\ resp[s] = Forbidden("Missing authentication token")

\* the room id the claims of a token stand for
C15_RoomId(c) == IF c.room = NoRoom THEN <<"user:">> \o c.sub ELSE c.room[1]

\* C15. Room derivation is a function of the claims: an admitted session's
\* room id is the token's room claim when there is one and "user:" + sub
\* otherwise, and the session is handed the channel registered under that
\* id; so a client with sub = alice and no room claim and a client whose
\* token carries room = "user:alice" are placed in the same room.
C15_RoomDerivation ==
    [][\A s \in Sess :
          (pc[s] = "idle" /\ pc'[s] = "admitted") =>
              /\ room_id'[s] = C15_RoomId(token'[s][1])
              /\ room_id'[s] \in DOMAIN rooms'
              /\ sender'[s] = rooms'[room_id'[s]]
              /\ \A t \in Sess \ {s} :
                    (/\ pc'[t] \notin {"idle", "rejected"}
                     /\ {token'[s][1], token'[t][1]}
                           = {GoodAlice, BobInAliceRoom})
                        => room_id'[t] = room_id'[s]]_vars

\* alice, without a room claim, and bob, with the room claim "user:alice",
\* are both ACTIVE on one channel
C15_Witness ==
    /\ token[1] = <<GoodAlice>>
    /\ token[2] = <<BobInAliceRoom>>
    /\ pc[1] = "active" /\ pc[2] = "active"
    /\ room_id[1] = AliceRoom /\ room_id[2] = AliceRoom
    /\ sender[1] = sender[2]

\* {"type":"binary","data":"0aff"}, the envelope of the bytes 0x0a 0xff
C16_Envelope0aff ==
    <<"{", "type", ":", "binary", ",", "data", ":", "'", "0", "a", "f", "f",
      "'", "}">>

\* C16. Binary frames are never forwarded raw: every binary frame is
\* published as one text payload, the envelope {"type":"binary","data":..}
\* around an encoding of its bytes, and every frame written to a client's
\* socket is a text frame carrying the published payload.
C16_BinaryEnveloped ==
    /\ \A c \in 1..Len(chan) : \A i \in 1..Len(chan[c]) :
          LET m == chan[c][i] IN
          /\ m.frame.kind = "binary" =>
                /\ m.frame.data = <<10, 255>>
                /\ m.text = C16_Envelope0aff
          /\ m.frame.kind = "text" => m.text = m.frame.data
    /\ \A s \in Sess : \A i \in 1..Len(sock[s]) :
          /\ sock[s][i].kind = "text"
          /\ sock[s][i].data = sock[s][i].msg.text
          /\ sock[s][i].msg.frame.kind = "binary"
                => sock[s][i].data = C16_Envelope0aff

\* a binary frame sent by one session has been written to another
\* session's socket
C16_Witness ==
    \E s \in Sess : \E i \in 1..Len(sock[s]) :
        /\ sock[s][i].msg.frame.kind = "binary"
        /\ sock[s][i].msg.from # s

\* the attempt reached validate_token with a non-empty token, which failed
\* for the given cause
C17_FailedFor(s, cause) ==
    /\ req[s] # None
    /\ ~OriginRefused(req[s])
    /\ token[s] # <<>>
    /\ ~validate_token(token[s], now).ok
    /\ validate_token(token[s], now).err = cause

\* C17. Uniform authentication failure: whatever makes a non-empty token
\* invalid (not a JWT, a bad signature, expired beyond the leeway), the
\* attempt gets the one response 403 "Invalid or expired token" and leaves
\* the gateway as it was before the attempt: no room, no channel, no
\* session state. Two attempts that differ only in the cause therefore end
\* with the same response and the same gateway state.
C17_UniformAuthFailure ==
    \A s \in Sess :
        \A cause \in {"InvalidToken", "InvalidSignature",
                       "ExpiredSignature"} :
            C17_FailedFor(s, cause) =>
                /\ resp[s] = Forbidden("Invalid or expired token")
                /\ pc[s] = "rejected"
                /\ DOMAIN rooms = {}
                /\ chan = <<>>
                /\ npub = 0
                /\ room_id[s] = None
                /\ sender[s] = 0
                /\ fwd[s] = "none"
                /\ sock[s] = <<>>
                /\ count_read[s] = -1

\* a token with a bad signature, otherwise valid, was refused
C17_Witness ==
    /\ C17_FailedFor(1, "InvalidSignature")
    /\ token[1][1].exp = Clock + 1000
    /\ pc[1] = "rejected"

\* the ways of picking, for each position of a sequence of length n, a
\* position of a sequence of length m, going strictly upwards
C18_Embeddings(n, m) ==
    { f \in [1..n -> 1..m] : \A i, j \in 1..n : i < j => f[i] < f[j] }

C19_LagLosesOnlyOldest ==
    [][\A s \in Sess :
          (/\ pc[s] = "active" /\ pc'[s] = "active"
           /\ fwd[s] = "running"
           /\ Lagged(s))
              => fwd'[s] = "running"]_vars

\* C20. Publishing into a channel with no subscriber is not an error for
\* the publisher: a send that finds no Receiver (the step counts a send and
\* stores no message) leaves every session where it was, the publisher
\* ACTIVE in its receive loop, and writes nothing to any socket.
C20_SendWithoutSubscribers ==
    [][(npub' = npub + 1 /\ chan' = chan) =>
          /\ \E s \in Sess :
                /\ pc[s] = "active" /\ pc'[s] = "active"
                /\ ReceiverCount(sender[s]) = 0
          /\ pc' = pc
          /\ fwd' = fwd
          /\ sock' = sock
          /\ resp' = resp
          /\ rooms' = rooms]_vars

\* the only session there is has lost its forward task and has since
\* published a frame that no Receiver took; it is still ACTIVE
C20_Witness ==
    \E s \in Sess :
        /\ pc[s] = "active"
        /\ fwd[s] = "ended"
        /\ \A t \in Sess \ {s} : pc[t] \in {"idle", "rejected"}
        /\ Len(chan) = 1
        /\ npub > Len(chan[1])

\* C21. Either loop's termination cancels its sibling: once a session's
\* forward loop has ended (a failed socket write, a receive error such as
\* lag) its receive loop is cancelled, so it takes no further data frame
\* from the client; no session goes on with one loop only.
C21_SiblingCancelled ==
    [][\A s \in Sess :
          (\E f \in Frames : RecvData(s, f)) => fwd[s] = "running"]_vars

\* C22. Release happens only after both loops have stopped: when a session
\* reads the subscriber count (the step from closing to checked), its own
\* forward task has stopped and its Receiver is no longer among those the
\* count covers.
C22_ReleaseAfterBothStopped ==
    [][\A s \in Sess :
          (pc[s] = "closing" /\ pc'[s] = "checked") =>
              /\ fwd[s] \in {"ended", "cancelled"}
              /\ s \notin Receivers(sender[s])]_vars

\* the steps of a session's lifecycle; closing and checked are the two
\* halves of CLOSING (before and after the count is read)
C23_Steps ==
    { <<"idle", "rejected">>, <<"idle", "admitted">>,
      <<"admitted", "active">>, <<"active", "closing">>,
      <<"closing", "checked">>, <<"checked", "closed">> }

\* C23. Session lifecycle is monotone: a session moves only along
\* ADMITTED -> ACTIVE -> CLOSING -> CLOSED, so its cleanup (abort of the
\* forward task, count read, optional removal) runs once; a CLOSED session
\* stays CLOSED, publishes nothing, and nothing is written to its socket.
C23_LifecycleMonotone ==
    [][\A s \in Sess :
          /\ pc'[s] # pc[s] => <<pc[s], pc'[s]>> \in C23_Steps
          /\ pc[s] = "closed" =>
                /\ pc'[s] = "closed"
                /\ ~(\E f \in Frames : RecvData(s, f))
                /\ sock'[s] = sock[s]]_vars

\* C24. Socket close terminates the whole session: once the receive loop
\* has ended on a close frame, a transport error or the end of the stream,
\* the session reaches CLOSED with its forward task stopped and its
\* Receiver dropped, under fair scheduling and without further input.
C24_CloseTerminates ==
    \A s \in Sess :
        (pc[s] = "closing")
            ~> (pc[s] = "closed" /\ fwd[s] \in {"ended", "cancelled"}
                  /\ s \notin Receivers(sender[s]))

\* a session is CLOSED and its forward task, aborted by the cleanup, has
\* been dropped
C24_Witness ==
    \E s \in Sess : pc[s] = "closed" /\ fwd[s] = "cancelled"

\* C25. Ping and pong frames are inert: a step in which a receive loop
\* takes a ping or a pong is taken by an ACTIVE session, publishes nothing,
\* leaves the room map and every channel's receiver count as they were,
\* and leaves every session, the receiving one included, in its state.
C25_PingPongInert ==
    [][nctl' # nctl =>
          /\ \E s \in Sess : pc[s] = "active" /\ pc'[s] = "active"
          /\ chan' = chan
          /\ npub' = npub
          /\ rooms' = rooms
          /\ \A c \in 1..Len(chan) : ReceiverCount(c)' = ReceiverCount(c)
          /\ pc' = pc
          /\ sender' = sender
          /\ fwd' = fwd
          /\ sock' = sock]_vars

\* two sessions share a room, and their receive loops have taken a ping
\* and a pong
C25_Witness ==
    /\ nctl = 2
    /\ \E s \in Sess :
          /\ pc[s] = "active"
          /\ ReceiverCount(sender[s]) = 2

\* the step is part of session s coming to an end: its receive loop stops,
\* its cleanup advances, or its forward task ends, is aborted or is dropped
C26_Ending(s) ==
    \/ pc[s] \in {"active", "closing", "checked"} /\ pc'[s] # pc[s]
    \/ fwd[s] \in {"running", "aborting"} /\ fwd'[s] # fwd[s]

\* C26. Failures are scoped to one session: no step of a session's
\* termination or cleanup, the removal of the room's entry included,
\* changes another ACTIVE session: its state, the channel it holds and that
\* channel's messages, its forward task and Receiver position, and its
\* socket stay as they were, so it goes on exchanging messages there.
C26_ScopedToSession ==
    [][\A s \in Sess :
          C26_Ending(s) =>
              \A t \in Sess \ {s} :
                  pc[t] = "active" =>
                      /\ pc'[t] = "active"
                      /\ sender'[t] = sender[t]
                      /\ chan'[sender[t]] = chan[sender[t]]
                      /\ fwd'[t] = fwd[t]
                      /\ rx_next'[t] = rx_next[t]
                      /\ sock'[t] = sock[t]]_vars

\* a session has closed and removed the room's entry; two other sessions
\* hold its channel, and one has since been delivered a message of the
\* other
C26_Witness ==
    \E s, t, u \in Sess :
        /\ pc[s] = "closed"
        /\ room_id[s] \notin DOMAIN rooms
        /\ t # u /\ sender[t] = sender[s] /\ sender[u] = sender[s]
        /\ pc[t] = "active" /\ pc[u] = "active"
        /\ \E i \in 1..Len(sock[u]) :
              /\ sock[u][i].msg.from = t
              /\ s \notin sock[u][i].msg.rcpts

\* C27. A rejected admission has no effect on the registry: the step in
\* which an attempt is refused, at the origin, the extraction or the
\* verification step, leaves the room map and the channels exactly as they
\* were; no entry is created and none is removed.
C27_RejectionLeavesRegistry ==
    [][\A s \in Sess :
          (pc[s] = "idle" /\ pc'[s] = "rejected") =>
              /\ rooms' = rooms
              /\ chan' = chan
              /\ sender' = sender]_vars

\* an attempt with an expired token for alice's room has been refused
\* while another session is ACTIVE in that room, whose entry is in place
C27_Witness ==
    \E s, t \in Sess :
        /\ pc[s] = "rejected"
        /\ verified[s]
        /\ pc[t] = "active"
        /\ room_id[t] = AliceRoom
        /\ AliceRoom \in DOMAIN rooms
        /\ DOMAIN rooms = {AliceRoom}

C29_SendTaskStopped ==
    [][\A s \in Sess :
          (pc[s] = "active" /\ pc'[s] # "active") =>
              fwd'[s] # "running"]_vars

====
